---- MODULE Spec2Model ----
(***************************************************************************)
(* Branch & ProductCode Mapper (src/app.py): a Streamlit script that       *)
(* fetches two JSON lists, normalizes them into two frames, memoizes the   *)
(* pair for one hour and answers product->branches / branch->products      *)
(* searches.                                                               *)
(*                                                                         *)
(* Text is modelled as a sequence of one-character strings.  A JSON value  *)
(* is a tagged record [t, v]: t is the Python type the json decoder gives  *)
(* it, v its content.                                                      *)
(***************************************************************************)
EXTENDS Integers, Sequences, FiniteSets, TLC

VARIABLES pc, now, ticks, cache, df, inflight, mode, term, out, calls, ix,
          fnPc, fnArg, fnRet

vars == <<pc, now, ticks, cache, df, inflight, mode, term, out, calls, ix,
          fnPc, fnArg, fnRet>>

appVars == <<pc, now, ticks, cache, df, inflight, mode, term, out, calls, ix>>

fnVars == <<fnPc, fnArg, fnRet>>

(***************************************************************************)
(* Bounds of the model.                                                    *)
(***************************************************************************)
\* longest raw productCodes string enumerated for normalize_codes
MaxStrLen == 4
\* most opening-hours entries in one openingTimes list
MaxEntries == 2
\* most records in an upstream products / branches response (query runs)
MaxProducts == 2
MaxBranches == 2
\* most records in an upstream response in the cache-lifecycle runs
MaxCacheRecords == 1
\* most clock advances in one behaviour of the cache-lifecycle runs
MaxTicks == 3

(***************************************************************************)
(* JSON values as Python objects.                                          *)
(***************************************************************************)
Null == [t |-> "null", v |-> <<>>]

Absent == [t |-> "absent", v |-> <<>>]

Str(s) == [t |-> "str", v |-> s]

PyInt(n) == [t |-> "int", v |-> <<n>>]

List(xs) == [t |-> "list", v |-> xs]

Map(keys) == [t |-> "map", v |-> keys]

IsStr(x) == x.t = "str"

RECURSIVE SeqsUpTo(_, _)
\* every sequence over S of length at most n
SeqsUpTo(S, n) ==
  IF n = 0 THEN {<<>>}
  ELSE LET shorter == SeqsUpTo(S, n - 1)
       IN shorter \cup {Append(s, x) : s \in {q \in shorter : Len(q) = n - 1}, x \in S}

RECURSIVE Concat(_)
\* the concatenation of a sequence of sequences
Concat(ss) == IF ss = <<>> THEN <<>> ELSE Head(ss) \o Concat(Tail(ss))

(***************************************************************************)
(* Python str primitives used by the script.                               *)
(***************************************************************************)
IsSpace(c) == c = " "

RECURSIVE LStrip(_)
LStrip(s) == IF s # <<>> /\ IsSpace(Head(s)) THEN LStrip(Tail(s)) ELSE s

RECURSIVE RStrip(_)
RStrip(s) ==
  IF s # <<>> /\ IsSpace(s[Len(s)]) THEN RStrip(SubSeq(s, 1, Len(s) - 1)) ELSE s

\* str.strip(): leading and trailing whitespace removed
Strip(s) == RStrip(LStrip(s))

RECURSIVE SplitScan(_, _, _)
\* str.split(","): a left-to-right scan; cur is the piece being read
SplitScan(s, cur, acc) ==
  IF s = <<>> THEN Append(acc, cur)
  ELSE IF Head(s) = "," THEN SplitScan(Tail(s), <<>>, Append(acc, cur))
  ELSE SplitScan(Tail(s), Append(cur, Head(s)), acc)

Split(s) == SplitScan(s, <<>>, <<>>)

(***************************************************************************)
(* normalize_codes (src/app.py 85-97).  A call's outcome is                *)
(* [raised, val]: raised is TRUE when an exception leaves the function.    *)
(***************************************************************************)
Returned(val) == [raised |-> FALSE, val |-> val]

Raised == [raised |-> TRUE, val |-> Null]

\* pd.isna(x) on a scalar cell: None, and the NaN a missing field becomes
IsNa(x) == x.t \in {"null", "absent"}

\* list(x): a dict gives its keys, a str its characters, a number raises TypeError
PyList(x) ==
  CASE x.t = "list" -> Returned(x)
    [] x.t = "map" -> Returned(List(x.v))
    [] x.t = "str" -> Returned(List([i \in 1..Len(x.v) |-> Str(<<x.v[i]>>)]))
    [] OTHER -> Raised

\* mutant: the pieces are not stripped
SplitCodes_NoStrip(s) ==
  LET pieces == Split(s)
      kept == SelectSeq(pieces, LAMBDA c : Strip(c) # <<>>)
  IN [i \in 1..Len(kept) |-> Str(kept[i])]

\* [c.strip() for c in x.split(",") if c.strip()]
SplitCodes(s) ==
  LET pieces == Split(s)
      kept == SelectSeq(pieces, LAMBDA c : Strip(c) # <<>>)
  IN [i \in 1..Len(kept) |-> Str(Strip(kept[i]))]

normalize_codes(x) ==
  IF x.t = "list" THEN Returned(x)
  ELSE IF x.t = "str" THEN Returned(List(SplitCodes(x.v)))
  ELSE IF IsNa(x) THEN Returned(List(<<>>))
  ELSE LET r == PyList(x)
       IN IF r.raised THEN Returned(List(<<>>)) ELSE r

(***************************************************************************)
(* format_opening_hours (src/app.py 120-153).                              *)
(* An opening-hours entry is a dict with the optional keys day,            *)
(* openingHour, openingMinute, closingHour, closingMinute; a key the dict  *)
(* lacks holds Absent.                                                     *)
(***************************************************************************)
Entry(day, oh, om, ch, cm) ==
  [t |-> "dict", v |-> <<day, oh, om, ch, cm>>]

\* entry.get(key, default)
Get(entry, k, default) == IF entry.v[k] = Absent THEN default ELSE entry.v[k]

KeyDay == 1
KeyOpeningHour == 2
KeyOpeningMinute == 3
KeyClosingHour == 4
KeyClosingMinute == 5

\* Python truth value of a JSON value (NaN, the missing cell, is truthy)
Truthy(x) ==
  CASE x.t = "null" -> FALSE
    [] x.t = "int" -> x.v[1] # 0
    [] x.t \in {"str", "list", "map"} -> x.v # <<>>
    [] OTHER -> TRUE

DigitChars == <<"0", "1", "2", "3", "4", "5", "6", "7", "8", "9">>

IsDigit(c) == \E d \in 1..10 : DigitChars[d] = c

DigitValue(c) == (CHOOSE d \in 1..10 : DigitChars[d] = c) - 1

RECURSIVE Digits(_)
\* the decimal digits of n >= 0
Digits(n) ==
  IF n < 10 THEN <<DigitChars[n + 1]>>
  ELSE Append(Digits(n \div 10), DigitChars[(n % 10) + 1])

\* str(n) of an int
IntText(n) == IF n < 0 THEN <<"-">> \o Digits(-n) ELSE Digits(n)

\* f"{n:02d}": sign-aware zero padding to a minimum width of 2
Fmt02d(n) ==
  LET body == IntText(n)
  IN IF Len(body) >= 2 THEN body ELSE <<"0">> \o body

RECURSIVE ParseDigits(_, _)
ParseDigits(s, acc) ==
  IF s = <<>> THEN acc ELSE ParseDigits(Tail(s), 10 * acc + DigitValue(Head(s)))

\* int(x): an int is itself; a str is stripped and read as an optionally
\* signed decimal, ValueError otherwise; None, list and dict raise TypeError
PyIntOf(x) ==
  CASE x.t = "int" -> [raised |-> FALSE, n |-> x.v[1]]
    [] x.t = "str" ->
         LET s == Strip(x.v)
             neg == s # <<>> /\ Head(s) = "-"
             ds == IF neg THEN Tail(s) ELSE s
         IN IF ds # <<>> /\ \A i \in 1..Len(ds) : IsDigit(ds[i])
            THEN [raised |-> FALSE,
                  n |-> IF neg THEN -ParseDigits(ds, 0) ELSE ParseDigits(ds, 0)]
            ELSE [raised |-> TRUE, n |-> 0]
    [] OTHER -> [raised |-> TRUE, n |-> 0]

\* str(x) as an f-string field renders it
PyStr(x) ==
  CASE x.t = "str" -> x.v
    [] x.t = "int" -> IntText(x.v[1])
    [] x.t = "null" -> <<"N", "o", "n", "e">>
    [] OTHER -> <<"n", "a", "n">>

NA == <<"N", "/", "A">>

\* the one character U+2013 (EN DASH) of the f-string
EnDash == <<"--">>

\* x or 0
OrZero(x) == IF Truthy(x) THEN x ELSE PyInt(0)

\* mutant: "if not open_h or not close_h" instead of the "is None" test
HoursPresent_Falsy(open_h, close_h) == Truthy(open_h) /\ Truthy(close_h)

\* not (open_h is None or close_h is None)
HoursPresent(open_h, close_h) == open_h # Null /\ close_h # Null

\* the body of the for loop for one entry: <<>> when the entry is skipped
\* (continue), else the one string appended to hours_list
RenderEntry(entry) ==
  IF entry.t # "dict" THEN <<>>
  ELSE LET day == Get(entry, KeyDay, Str(<<>>))
           open_h == Get(entry, KeyOpeningHour, Null)
           open_m == Get(entry, KeyOpeningMinute, PyInt(0))
           close_h == Get(entry, KeyClosingHour, Null)
           close_m == Get(entry, KeyClosingMinute, PyInt(0))
       IN IF ~HoursPresent(open_h, close_h) THEN <<>>
          ELSE LET oh == PyIntOf(open_h)
                   om == PyIntOf(OrZero(open_m))
                   chh == PyIntOf(close_h)
                   cm == PyIntOf(OrZero(close_m))
               IN IF oh.raised \/ om.raised \/ chh.raised \/ cm.raised THEN <<>>
                  ELSE LET open_time == Fmt02d(oh.n) \o <<":">> \o Fmt02d(om.n)
                           close_time == Fmt02d(chh.n) \o <<":">> \o Fmt02d(cm.n)
                           span == open_time \o EnDash \o close_time
                       IN IF Truthy(day)
                          THEN <<PyStr(day) \o <<":", " ">> \o span>>
                          ELSE <<span>>

RECURSIVE JoinWith(_, _)
\* sep.join(parts)
JoinWith(sep, parts) ==
  IF parts = <<>> THEN <<>>
  ELSE IF Len(parts) = 1 THEN parts[1]
  ELSE parts[1] \o sep \o JoinWith(sep, Tail(parts))

format_opening_hours(raw) ==
  IF ~Truthy(raw) THEN Returned(Str(NA))
  ELSE IF raw.t = "str" THEN Returned(raw)
  ELSE IF raw.t = "list" THEN
    LET hours_list == Concat([i \in 1..Len(raw.v) |-> RenderEntry(raw.v[i])])
    IN IF hours_list # <<>>
       THEN Returned(Str(JoinWith(<<",", " ">>, hours_list)))
       ELSE Returned(Str(NA))
  ELSE Returned(Str(PyStr(raw)))

(***************************************************************************)
(* The search filters (src/app.py 172-176, 186-192, 216-218, 228-229).     *)
(***************************************************************************)
UpperChars == <<"A", "B", "C", "L", "M", "N">>

LowerChars == <<"a", "b", "c", "l", "m", "n">>

\* one character under re.IGNORECASE
Fold(c) ==
  IF \E i \in 1..Len(UpperChars) : UpperChars[i] = c
  THEN LowerChars[CHOOSE i \in 1..Len(UpperChars) : UpperChars[i] = c]
  ELSE c

\* Series.astype(str) on an object column: str(None) is "None", a missing
\* cell (NaN) is "nan".  (A pandas build that keeps missing values through
\* astype(str) is not modelled.)
AsTypeStr(x) == PyStr(x)

\* re.compile(pat): of the characters the model's terms are made of, "(" opens
\* a group, and a group that is never closed is an re.error
RegexCompiles(pat) == \A i \in 1..Len(pat) : pat[i] # "("

\* regex.search(s) with re.IGNORECASE: "." matches any character, every other
\* character of the model's terms matches itself
RegexSearch(pat, s) ==
  \E i \in 0..(Len(s) - Len(pat)) :
    \A k \in 1..Len(pat) : pat[k] = "." \/ Fold(pat[k]) = Fold(s[i + k])

\* column.astype(str).str.contains(term, case=False, na=False), one cell
StrContains(x, pat) == RegexSearch(pat, AsTypeStr(x))

\* the row positions of a frame, in frame order; a boolean mask keeps some
Indexes(rows) == [i \in 1..Len(rows) |-> i]

Rows(rows, idx) == [k \in 1..Len(idx) |-> rows[idx[k]]]

\* mutant: substring test on the joined codes instead of list membership
branch_has_code_Substring(product_code, codes) ==
  /\ product_code.t = "str"
  /\ \E k \in 1..Len(codes.v) :
       /\ codes.v[k].t = "str"
       /\ \E i \in 0..(Len(codes.v[k].v) - Len(product_code.v)) :
            SubSeq(codes.v[k].v, i + 1, i + Len(product_code.v)) = product_code.v

\* product_code in codes, on a list: equality with one of its elements
branch_has_code(product_code, codes) ==
  \E k \in 1..Len(codes.v) : codes.v[k] = product_code

\* the frame shown for one product: the four display columns of a copy of the
\* matched branches, opening_hours being the formatted column
DisplayBranch(row) ==
  [branch_name |-> row.branch_name,
   branch_manager |-> row.branch_manager,
   address |-> row.address,
   opening_hours |-> format_opening_hours(row.opening_hours).val]

\* mutant: the display column is written into the branches frame itself
BranchesAfterDisplay_InPlace(branches, idx) ==
  [i \in 1..Len(branches) |->
     IF \E k \in 1..Len(idx) : idx[k] = i
     THEN [branches[i] EXCEPT
             !.opening_hours = format_opening_hours(branches[i].opening_hours).val]
     ELSE branches[i]]

\* df_branches after display_branches = matched_branches.copy() got its new
\* column: the column went into the copy
BranchesAfterDisplay(branches, idx) == branches

\* lines 173-176: the positions of the products the term matches
ProductMatches(products, pat) ==
  SelectSeq(Indexes(products),
            LAMBDA i : StrContains(products[i].product_name, pat)
                       \/ StrContains(products[i].product_code, pat))

\* line 192: the positions of the branches whose product_codes hold the code
BranchesWithCode(branches, product_code) ==
  SelectSeq(Indexes(branches),
            LAMBDA i : branch_has_code(product_code, branches[i].product_codes))

\* the Product -> Branches block for a non-empty term
ProductSearch(products, branches, pat) ==
  IF ~RegexCompiles(pat) THEN [kind |-> "raised", rows |-> <<>>]
  ELSE
    LET matched == ProductMatches(products, pat)
        Item(i) ==
          LET idx == BranchesWithCode(branches, products[i].product_code)
          IN [head |-> products[i],
              table |-> [k \in 1..Len(idx) |-> DisplayBranch(branches[idx[k]])],
              signal |-> IF idx # <<>> THEN "found" ELSE "none for this item"]
    IN IF matched # <<>>
       THEN [kind |-> "results", rows |-> [k \in 1..Len(matched) |-> Item(matched[k])]]
       ELSE [kind |-> "no matches", rows |-> <<>>]

\* the positions of every branch a product search puts into a display frame
DisplayedBranches(products, branches, pat) ==
  IF ~RegexCompiles(pat) THEN <<>>
  ELSE LET matched == ProductMatches(products, pat)
       IN SelectSeq(Indexes(branches),
                    LAMBDA i : \E k \in 1..Len(matched) :
                      branch_has_code(products[matched[k]].product_code,
                                      branches[i].product_codes))

\* Series.isin(values): equality with one of the values
IsIn(x, values) == \E k \in 1..Len(values) : values[k] = x

\* lines 216-218: the positions of the branches the term matches
BranchMatches(branches, pat) ==
  SelectSeq(Indexes(branches), LAMBDA i : StrContains(branches[i].branch_name, pat))

\* the Branch -> Products block for a non-empty term
BranchSearch(products, branches, pat) ==
  IF ~RegexCompiles(pat) THEN [kind |-> "raised", rows |-> <<>>]
  ELSE
    LET matched == BranchMatches(branches, pat)
        Item(i) ==
          LET branch_products == IF Truthy(branches[i].product_codes)
                                 THEN branches[i].product_codes.v ELSE <<>>
              idx == SelectSeq(Indexes(products),
                               LAMBDA j : IsIn(products[j].product_code, branch_products))
          IN [head |-> [branch_name |-> branches[i].branch_name,
                        branch_manager |-> branches[i].branch_manager,
                        address |-> branches[i].address,
                        opening_hours |->
                          format_opening_hours(branches[i].opening_hours).val],
              table |-> Rows(products, idx),
              signal |-> IF idx # <<>> THEN "found" ELSE "none for this item"]
    IN IF matched # <<>>
       THEN [kind |-> "results", rows |-> [k \in 1..Len(matched) |-> Item(matched[k])]]
       ELSE [kind |-> "no matches", rows |-> <<>>]

(***************************************************************************)
(* fetch_data (src/app.py 61-108).  An upstream response is                *)
(* [kind, body]: "error" when requests.get or .json() raises, "scalar"     *)
(* when the JSON parses to something pd.DataFrame cannot tabulate,         *)
(* "records" when it is a list of objects (body).  A frame is the sequence *)
(* of its rows; a frame without rows is .empty.                            *)
(***************************************************************************)
ErrorResponse == [kind |-> "error", body |-> <<>>]

ScalarResponse == [kind |-> "scalar", body |-> <<>>]

Records(body) == [kind |-> "records", body |-> body]

\* cache_data's time-to-live, seconds
TTL == 3600

EmptyFrames == [products |-> <<>>, branches |-> <<>>]

\* "product_codes" in df_branches.columns: some record carries productCodes
HasCodesColumn(records) == \E i \in 1..Len(records) : records[i].productCodes # Absent

\* the renamed product frame
ProductFrame(records) ==
  [i \in 1..Len(records) |->
     [product_code |-> records[i].code, product_name |-> records[i].detail]]

\* mutant: the branch without the column keeps no product_codes list
CodesColumn_NoDefault(records) ==
  [i \in 1..Len(records) |->
     IF HasCodesColumn(records) THEN normalize_codes(records[i].productCodes).val
     ELSE Null]

\* lines 99-102: the normalized column, or a column of empty lists
CodesColumn(records) ==
  [i \in 1..Len(records) |->
     IF HasCodesColumn(records) THEN normalize_codes(records[i].productCodes).val
     ELSE List(<<>>)]

\* the renamed branch frame with its product_codes column
BranchFrame(records) ==
  [i \in 1..Len(records) |->
     [branch_name |-> records[i].name,
      branch_manager |-> records[i].manager,
      address |-> records[i].postalAddress,
      opening_hours |-> records[i].openingTimes,
      product_codes |-> CodesColumn(records)[i]]]

\* mutant: the except clause returns whatever was built so far
FetchFailure_Partial(presp) ==
  [failed |-> TRUE,
   frames |-> [products |-> IF presp.kind = "records" THEN ProductFrame(presp.body)
                            ELSE <<>>,
               branches |-> <<>>]]

\* lines 106-108: st.error(...) and two empty frames
FetchFailure(presp) == [failed |-> TRUE, frames |-> EmptyFrames]

\* lines 67-108, once both calls returned
BuildFrames(presp, bresp) ==
  IF presp.kind # "records" \/ bresp.kind # "records" THEN FetchFailure(presp)
  ELSE [failed |-> FALSE,
        frames |-> [products |-> ProductFrame(presp.body),
                    branches |-> BranchFrame(bresp.body)]]

NoCache == [present |-> FALSE, at |-> 0, failed |-> FALSE, frames |-> EmptyFrames,
            rawBranches |-> <<>>]

\* mutant: a failed cycle's result is not kept
CacheFresh_NoFailures(c, t) == c.present /\ ~c.failed /\ t - c.at < TTL

\* the memoized entry is served while it is younger than the ttl
CacheFresh(c, t) == c.present /\ t - c.at < TTL

\* line 113: df_products.empty or df_branches.empty
GuardHalts(frames) == frames.products = <<>> \/ frames.branches = <<>>

NoOutput == [kind |-> "none", fetchError |-> FALSE, rows |-> <<>>]

ModeProduct == "Product -> Branches"

ModeBranch == "Branch -> Products"

(***************************************************************************)
(* One run of the script per user interaction.                             *)
(***************************************************************************)
\* the user changes a widget: the script reruns from the top, its names
\* unbound until their line runs again
StartInteraction ==
  /\ pc = "idle"
  /\ pc' = "fetch"
  /\ mode' = ModeProduct
  /\ term' = <<>>
  /\ df' = EmptyFrames
  /\ out' = NoOutput
  /\ calls' = <<>>
  /\ ix' = [ran |-> TRUE, startedAt |-> now, prior |-> cache, cycles |-> 0]
  /\ UNCHANGED <<now, ticks, cache, inflight, fnVars>>

\* line 111 on a cache hit: the memoized frames (a copy) and the replayed st.error
CacheHit ==
  /\ pc = "fetch"
  /\ CacheFresh(cache, now)
  /\ df' = cache.frames
  /\ out' = [out EXCEPT !.fetchError = cache.failed]
  /\ pc' = "guard"
  /\ UNCHANGED <<now, ticks, cache, inflight, mode, term, calls, ix, fnVars>>

\* line 64 on a cache miss
GetProducts(resp) ==
  /\ pc = "fetch"
  /\ ~CacheFresh(cache, now)
  /\ calls' = Append(calls, [api |-> "products", resp |-> resp])
  /\ ix' = [ix EXCEPT !.cycles = @ + 1]
  /\ IF resp.kind = "error"
     THEN /\ cache' = [present |-> TRUE, at |-> now, failed |-> TRUE,
                       frames |-> FetchFailure(resp).frames, rawBranches |-> <<>>]
          /\ df' = FetchFailure(resp).frames
          /\ out' = [out EXCEPT !.fetchError = TRUE]
          /\ pc' = "guard"
          /\ UNCHANGED inflight
     ELSE /\ inflight' = resp
          /\ pc' = "branches"
          /\ UNCHANGED <<cache, df, out>>
  /\ UNCHANGED <<now, ticks, mode, term, fnVars>>

\* lines 65-108
GetBranches(resp) ==
  /\ pc = "branches"
  /\ calls' = Append(calls, [api |-> "branches", resp |-> resp])
  /\ LET r == IF resp.kind = "error" THEN FetchFailure(inflight)
              ELSE BuildFrames(inflight, resp)
     IN /\ cache' = [present |-> TRUE, at |-> now, failed |-> r.failed,
                     frames |-> r.frames,
                     rawBranches |-> IF r.failed THEN <<>> ELSE resp.body]
        /\ df' = r.frames
        /\ out' = [out EXCEPT !.fetchError = r.failed]
  /\ inflight' = ErrorResponse
  /\ pc' = "guard"
  /\ UNCHANGED <<now, ticks, mode, term, ix, fnVars>>

\* lines 113-115
Guard ==
  /\ pc = "guard"
  /\ IF GuardHalts(df)
     THEN /\ out' = [out EXCEPT !.kind = "could not load data"]
          /\ pc' = "idle"
     ELSE /\ pc' = "search"
          /\ UNCHANGED out
  /\ UNCHANGED <<now, ticks, cache, df, inflight, mode, term, calls, ix, fnVars>>

\* lines 158-207: the widgets hold Product -> Branches and the text t
SearchByProduct(t) ==
  /\ pc = "search"
  /\ mode' = ModeProduct
  /\ term' = t
  /\ IF t = <<>>
     THEN /\ out' = [out EXCEPT !.kind = "enter a term"]
          /\ UNCHANGED df
     ELSE LET r == ProductSearch(df.products, df.branches, t)
          IN /\ out' = [out EXCEPT !.kind = r.kind, !.rows = r.rows]
             /\ df' = [df EXCEPT !.branches =
                         BranchesAfterDisplay(df.branches,
                           DisplayedBranches(df.products, df.branches, t))]
  /\ pc' = "idle"
  /\ UNCHANGED <<now, ticks, cache, inflight, calls, ix, fnVars>>

\* lines 158-164, 212-241: the widgets hold Branch -> Products and the text t
SearchByBranch(t) ==
  /\ pc = "search"
  /\ mode' = ModeBranch
  /\ term' = t
  /\ IF t = <<>>
     THEN out' = [out EXCEPT !.kind = "enter a term"]
     ELSE LET r == BranchSearch(df.products, df.branches, t)
          IN out' = [out EXCEPT !.kind = r.kind, !.rows = r.rows]
  /\ pc' = "idle"
  /\ UNCHANGED <<now, ticks, cache, df, inflight, calls, ix, fnVars>>

\* the wall clock moves between script runs and while a request is out
Tick(d) ==
  /\ pc \in {"idle", "branches"}
  /\ ticks < MaxTicks
  /\ ticks' = ticks + 1
  /\ now' = now + d
  /\ UNCHANGED <<pc, cache, df, inflight, mode, term, out, calls, ix, fnVars>>

AppInit ==
  /\ pc = "idle"
  /\ now = 0
  /\ ticks = 0
  /\ cache = NoCache
  /\ df = EmptyFrames
  /\ inflight = ErrorResponse
  /\ mode = ModeProduct
  /\ term = <<>>
  /\ out = NoOutput
  /\ calls = <<>>
  /\ ix = [ran |-> FALSE, startedAt |-> 0, prior |-> NoCache, cycles |-> 0]

FnIdle ==
  /\ fnPc = "none"
  /\ fnArg = Null
  /\ fnRet = Returned(Null)

(***************************************************************************)
(* Upstream data and search terms the runs draw from.                      *)
(***************************************************************************)
ProductRec(code, detail) == [code |-> code, detail |-> detail]

BranchRec(name, hours, codes) ==
  [name |-> name, manager |-> Str(<<"M">>), postalAddress |-> Str(<<"L">>),
   openingTimes |-> hours, productCodes |-> codes]

ProductRecs ==
  { ProductRec(Str(<<"A">>), Str(<<"A", "b">>)),
    ProductRec(Str(<<"A", ",", "B">>), Null),
    ProductRec(Str(<<>>), Str(<<"b", ".">>)),
    ProductRec(Null, Null) }

MonNineToFive == Entry(Str(<<"M">>), PyInt(9), Absent, PyInt(17), Null)

BranchRecs ==
  { BranchRec(Str(<<"A", "b">>), List(<<MonNineToFive>>), Str(<<"A", ",", "B">>)),
    BranchRec(Null, Null, List(<<Str(<<"A", ",", "B">>), Str(<<>>)>>)),
    BranchRec(Str(<<"b", ".">>), Str(<<"9">>), List(<<PyInt(1), Str(<<"A">>)>>)),
    BranchRec(Str(<<"n">>), Null, Absent) }

\* what the user may type; <<>> is the empty text input
Terms ==
  { <<>>, <<"a">>, <<"B">>, <<"n">>, <<".">>, <<"(">>, <<"A", ",", "B">>, <<"b", ".">> }

Responses(recs, n) ==
  {ErrorResponse, ScalarResponse} \cup {Records(b) : b \in SeqsUpTo(recs, n)}

ProductResponses == Responses(ProductRecs, MaxProducts)

BranchResponses == Responses(BranchRecs, MaxBranches)

CacheProductRecs ==
  { ProductRec(Str(<<"A">>), Str(<<"A", "b">>)), ProductRec(Str(<<"B">>), Null) }

CacheBranchRecs ==
  { BranchRec(Str(<<"A", "b">>), Null, Str(<<"A", ",", "B">>)) }

CacheProductResponses == Responses(CacheProductRecs, MaxCacheRecords)

CacheBranchResponses == Responses(CacheBranchRecs, MaxCacheRecords)

CacheTerms == { <<>>, <<"a">> }

\* one second, one second short of the ttl, the ttl
TickSteps == {1, TTL - 1, TTL}

(***************************************************************************)
(* Spec: the script over rich upstream data, the clock standing still.     *)
(***************************************************************************)
Init == AppInit /\ FnIdle

Next ==
  \/ StartInteraction
  \/ CacheHit
  \/ \E r \in ProductResponses : GetProducts(r)
  \/ \E r \in BranchResponses : GetBranches(r)
  \/ Guard
  \/ \E t \in Terms : SearchByProduct(t)
  \/ \E t \in Terms : SearchByBranch(t)

Spec == Init /\ [][Next]_vars

(***************************************************************************)
(* SpecCache: the cache lifecycle, the clock moving.                       *)
(***************************************************************************)
NextCache ==
  \/ StartInteraction
  \/ CacheHit
  \/ \E r \in CacheProductResponses : GetProducts(r)
  \/ \E r \in CacheBranchResponses : GetBranches(r)
  \/ Guard
  \/ \E t \in CacheTerms : SearchByProduct(t)
  \/ \E t \in CacheTerms : SearchByBranch(t)
  \/ \E d \in TickSteps : Tick(d)

SpecCache == Init /\ [][NextCache]_vars

(***************************************************************************)
(* SpecNorm: normalize_codes applied to one raw productCodes value.        *)
(***************************************************************************)
CodeChars == {"A", "B", " ", ","}

\* "A, B ,,C"
SpecExample == <<"A", ",", " ", "B", " ", ",", ",", "C">>

NormInputs ==
  {Str(s) : s \in SeqsUpTo(CodeChars, MaxStrLen)}
  \cup {Str(SpecExample)}
  \cup {List(xs) : xs \in SeqsUpTo({Str(<<"A">>), Str(<<" ", "B">>), PyInt(1), Null}, 2)}
  \cup {Null, Absent, PyInt(0), PyInt(5), Map(<<>>), Map(<<Str(<<"A">>), Str(<<"B">>)>>)}

InitNorm == AppInit /\ fnPc = "normalize_codes" /\ fnArg \in NormInputs
            /\ fnRet = Returned(Null)

NormCall ==
  /\ fnPc = "normalize_codes"
  /\ fnRet' = normalize_codes(fnArg)
  /\ fnPc' = "normalized"
  /\ UNCHANGED <<fnArg, appVars>>

NextNorm == NormCall

SpecNorm == InitNorm /\ [][NextNorm]_vars

\* the k-th smallest element of a finite set of integers
Nth(S, k) == CHOOSE x \in S : Cardinality({y \in S : y < x}) = k - 1

\* the text between consecutive commas (and the two ends), left to right
CommaFields(s) ==
  LET cuts == {0, Len(s) + 1} \cup {i \in 1..Len(s) : s[i] = ","}
  IN [k \in 1..(Cardinality(cuts) - 1) |->
        SubSeq(s, Nth(cuts, k) + 1, Nth(cuts, k + 1) - 1)]

\* a field without the blanks around it
Trimmed(f) ==
  LET inked == {i \in 1..Len(f) : f[i] # " "}
  IN IF inked = {} THEN <<>>
     ELSE SubSeq(f, Nth(inked, 1), Nth(inked, Cardinality(inked)))

ExpectedCodes(s) ==
  LET fields == CommaFields(s)
      kept == SelectSeq([k \in 1..Len(fields) |-> Trimmed(fields[k])],
                        LAMBDA f : f # <<>>)
  IN [k \in 1..Len(kept) |-> Str(kept[k])]

\* C7: normalize_codes never raises; a list comes back as it is; a string gives
\* its comma-separated fields, trimmed, the empty ones dropped, in order;
\* null/absent gives []; a mapping gives list(x), its keys; a number, which
\* list() cannot coerce, gives [].
C7_NormalizeCodes ==
  fnPc = "normalized" =>
    /\ ~fnRet.raised
    /\ fnArg.t = "list" => fnRet.val = fnArg
    /\ fnArg.t = "str" => fnRet.val = List(ExpectedCodes(fnArg.v))
    /\ fnArg \in {Null, Absent} => fnRet.val = List(<<>>)
    /\ fnArg.t = "map" => fnRet.val = List(fnArg.v)
    /\ fnArg.t = "int" => fnRet.val = List(<<>>)
    /\ fnArg = Str(SpecExample) =>
         fnRet.val = List(<<Str(<<"A">>), Str(<<"B">>), Str(<<"C">>)>>)
    /\ fnArg \in {Str(<<>>), Str(<<" ", ",", " ">>)} => fnRet.val = List(<<>>)

C7_Witness ==
  /\ fnPc = "normalized"
  /\ fnArg = Str(<<"A", ",", " ", "B">>)
  /\ fnRet = Returned(List(<<Str(<<"A">>), Str(<<"B">>)>>))

(***************************************************************************)
(* SpecCycle: the normalizing half of a successful fetch cycle applied to  *)
(* one upstream branches response.                                         *)
(***************************************************************************)
CodeShapes ==
  { List(<<Str(<<"A">>), Str(<<"B">>)>>), List(<<PyInt(1), Str(<<"A">>)>>), List(<<>>),
    Str(<<"A", ",", " ", "B">>), Str(<<>>), Null, Absent, PyInt(7),
    Map(<<Str(<<"B">>)>>) }

CycleInputs ==
  {Records(b) : b \in SeqsUpTo({BranchRec(Str(<<"L">>), Null, c) : c \in CodeShapes},
                               MaxBranches)}

InitCycle == AppInit /\ fnPc = "cycle" /\ fnArg \in CycleInputs
             /\ fnRet = Returned(Null)

CycleCall ==
  /\ fnPc = "cycle"
  /\ LET r == BuildFrames(Records(<<ProductRec(Str(<<"A">>), Str(<<"A", "b">>))>>), fnArg)
     IN fnRet' = [raised |-> r.failed, val |-> List(r.frames.branches)]
  /\ fnPc' = "cycled"
  /\ UNCHANGED <<fnArg, appVars>>

NextCycle == CycleCall

SpecCycle == InitCycle /\ [][NextCycle]_vars

\* C6 as stated: after a successful cycle every branch's product_codes is a
\* list whose elements are all strings, whatever the raw productCodes was.
C6_Original ==
  (fnPc = "cycled" /\ ~fnRet.raised) =>
    \A i \in 1..Len(fnRet.val.v) :
      LET codes == fnRet.val.v[i].product_codes
      IN codes.t = "list" /\ \A k \in 1..Len(codes.v) : IsStr(codes.v[k])

\* C6 amended: after a successful cycle every branch's product_codes is a list;
\* a raw list is kept as it is, whatever its elements; every other raw shape
\* (string, null/absent, number, mapping) gives a list of strings; and when no
\* record has a productCodes field every branch gets [].
C6_ProductCodesAreLists ==
  (fnPc = "cycled" /\ ~fnRet.raised) =>
    /\ Len(fnRet.val.v) = Len(fnArg.body)
    /\ \A i \in 1..Len(fnRet.val.v) :
         LET codes == fnRet.val.v[i].product_codes
             raw == fnArg.body[i].productCodes
         IN /\ codes.t = "list"
            /\ raw.t = "list" => codes = raw
            /\ raw.t # "list" => \A k \in 1..Len(codes.v) : IsStr(codes.v[k])
            /\ (\A j \in 1..Len(fnArg.body) : fnArg.body[j].productCodes = Absent)
                 => codes = List(<<>>)

C6_Witness ==
  /\ fnPc = "cycled"
  /\ ~fnRet.raised
  /\ Len(fnRet.val.v) = 2
  /\ fnArg.body[1].productCodes = Str(<<"A", ",", " ", "B">>)
  /\ fnRet.val.v[1].product_codes = List(<<Str(<<"A">>), Str(<<"B">>)>>)
  /\ fnArg.body[2].productCodes = PyInt(7)
  /\ fnRet.val.v[2].product_codes = List(<<>>)

(***************************************************************************)
(* SpecHours: format_opening_hours applied to one raw openingTimes value.  *)
(***************************************************************************)
Mon == Str(<<"M", "o", "n">>)

HoursEntries ==
  {Entry(d, oh, Absent, ch, Absent) :
     d \in {Absent, Mon},
     oh \in {Absent, Null, PyInt(0), PyInt(9), Str(<<"9">>), Str(<<"x">>)},
     ch \in {Null, PyInt(17)}}
  \cup {Entry(Mon, PyInt(9), om, PyInt(17), cm) :
          om \in {Null, PyInt(0), PyInt(5), Str(<<>>), Str(<<"x">>)},
          cm \in {Absent, PyInt(30)}}
  \cup {Entry(Str(<<>>), PyInt(9), Absent, PyInt(100), Absent),
        Entry(Mon, PyInt(-1), Absent, Str(<<" ", "1", "7">>), Absent),
        Str(<<"x">>), Null}

HoursInputs ==
  {List(es) : es \in SeqsUpTo(HoursEntries, MaxEntries)}
  \cup {Null, Absent, Str(<<>>), Str(<<"9", "-", "5">>), PyInt(0), PyInt(5)}

InitHours == AppInit /\ fnPc = "format_opening_hours" /\ fnArg \in HoursInputs
             /\ fnRet = Returned(Null)

HoursCall ==
  /\ fnPc = "format_opening_hours"
  /\ fnRet' = format_opening_hours(fnArg)
  /\ fnPc' = "formatted"
  /\ UNCHANGED <<fnArg, appVars>>

NextHours == HoursCall

SpecHours == InitHours /\ [][NextHours]_vars

\* the value of key k of an entry, Absent when the key is missing
Field(e, k) == e.v[k]

\* a decimal numeral, blanks around it and a leading minus sign allowed
IsNumeral(s) ==
  LET inked == {i \in 1..Len(s) : s[i] # " "}
      lo == Nth(inked, 1)
      hi == Nth(inked, Cardinality(inked))
      first == IF s[lo] = "-" THEN lo + 1 ELSE lo
  IN /\ inked # {}
     /\ first <= hi
     /\ \A i \in first..hi : IsDigit(s[i])

RECURSIVE DigitsValue(_, _, _)
\* the number the digits s[lo..hi] write: the last digit plus ten times the rest
DigitsValue(s, lo, hi) ==
  IF lo > hi THEN 0 ELSE DigitValue(s[hi]) + 10 * DigitsValue(s, lo, hi - 1)

NumeralValue(s) ==
  LET inked == {i \in 1..Len(s) : s[i] # " "}
      lo == Nth(inked, 1)
      hi == Nth(inked, Cardinality(inked))
      neg == s[lo] = "-"
      first == IF neg THEN lo + 1 ELSE lo
      mag == DigitsValue(s, first, hi)
  IN IF neg THEN -mag ELSE mag

\* a minute that is absent, null or otherwise falsy counts as 0
MinuteOrZero(x) ==
  IF x \in {Absent, Null, PyInt(0), Str(<<>>)} THEN PyInt(0) ELSE x

\* what int() accepts among the values of the model
Converts(x) == x.t = "int" \/ (x.t = "str" /\ IsNumeral(x.v))

Converted(x) == IF x.t = "int" THEN x.v[1] ELSE NumeralValue(x.v)

\* at least two digits, zero-padded
TwoDigits(n) ==
  IF 0 <= n /\ n <= 9 THEN <<"0", DigitChars[n + 1]>> ELSE IntText(n)

Clock(h, m) == TwoDigits(Converted(h)) \o <<":">> \o TwoDigits(Converted(m))

Rendering(e) ==
  LET span == Clock(Field(e, KeyOpeningHour), MinuteOrZero(Field(e, KeyOpeningMinute)))
              \o EnDash
              \o Clock(Field(e, KeyClosingHour), MinuteOrZero(Field(e, KeyClosingMinute)))
      day == Field(e, KeyDay)
  IN IF day.t = "str" /\ day.v # <<>> THEN day.v \o <<":", " ">> \o span ELSE span

\* the claim's reading: only integers are rendered
RetainedIntegersOnly(e) ==
  /\ e.t = "dict"
  /\ Field(e, KeyOpeningHour).t = "int"
  /\ Field(e, KeyClosingHour).t = "int"
  /\ Field(e, KeyOpeningMinute) \in {Absent, Null} \/ Field(e, KeyOpeningMinute).t = "int"
  /\ Field(e, KeyClosingMinute) \in {Absent, Null} \/ Field(e, KeyClosingMinute).t = "int"

\* the code's reading: whatever int() converts is rendered
RetainedConvertible(e) ==
  /\ e.t = "dict"
  /\ Field(e, KeyOpeningHour) \notin {Absent, Null}
  /\ Field(e, KeyClosingHour) \notin {Absent, Null}
  /\ Converts(Field(e, KeyOpeningHour))
  /\ Converts(Field(e, KeyClosingHour))
  /\ Converts(MinuteOrZero(Field(e, KeyOpeningMinute)))
  /\ Converts(MinuteOrZero(Field(e, KeyClosingMinute)))

\* the display string the claim describes, Retained deciding which entries show
ExpectedHours(raw, Retained(_)) ==
  IF raw \in {Null, Str(<<>>), PyInt(0), List(<<>>)} THEN NA
  ELSE IF raw.t = "str" THEN raw.v
  ELSE IF raw.t = "list" THEN
    LET kept == SelectSeq(raw.v, Retained)
    IN IF kept = <<>> THEN NA
       ELSE JoinWith(<<",", " ">>, [k \in 1..Len(kept) |-> Rendering(kept[k])])
  ELSE PyStr(raw)

\* C8 as stated: entries whose values are not integers are skipped.
C8_Original ==
  fnPc = "formatted" =>
    /\ ~fnRet.raised
    /\ fnRet.val = Str(ExpectedHours(fnArg, RetainedIntegersOnly))

\* C8 amended: format_opening_hours never raises; "N/A" for a falsy input; a
\* non-empty string unchanged; for a list the ", "-join, in order, of one
\* rendering per retained entry, an entry being retained iff it is a record,
\* both hours are present and non-null (0 counts as present) and int()
\* converts both hours and both minutes, a falsy minute counting as 0; each
\* number is zero-padded to at least two digits; "<day>: " is prefixed iff day
\* is non-empty; "N/A" when nothing is rendered; str(input) for other shapes.
C8_FormatOpeningHours ==
  fnPc = "formatted" =>
    /\ ~fnRet.raised
    /\ fnRet.val = Str(ExpectedHours(fnArg, RetainedConvertible))

C8_Witness ==
  /\ fnPc = "formatted"
  /\ fnArg = List(<<Entry(Mon, PyInt(0), Absent, PyInt(17), Absent),
                    Entry(Absent, Str(<<"9">>), Absent, PyInt(17), Absent)>>)
  /\ fnRet.val = Str(<<"M", "o", "n", ":", " ", "0", "0", ":", "0", "0", "--",
                       "1", "7", ":", "0", "0", ",", " ",
                       "0", "9", ":", "0", "0", "--", "1", "7", ":", "0", "0">>)

(***************************************************************************)
(* The claims about the searches (Spec).                                   *)
(***************************************************************************)
\* the text x contains t as a substring, letter case aside; a null cell
\* contains nothing
ContainsText(x, t) ==
  /\ x.t = "str"
  /\ \E i \in 0..(Len(x.v) - Len(t)) :
       \A k \in 1..Len(t) : Fold(x.v[i + k]) = Fold(t[k])

\* the script ran a search for a non-empty term to its end
Searched(m) ==
  /\ pc = "idle"
  /\ mode = m
  /\ term # <<>>
  /\ out.kind \in {"results", "no matches", "raised"}

Heads(rows) == [k \in 1..Len(rows) |-> rows[k].head]

\* C1: for every non-empty term the matched Products are exactly the Products,
\* in snapshot order, whose product_name or product_code contains the term as
\* a case-insensitive substring; a null field contains no term; no term makes
\* the filter raise.
C1_ProductFilter ==
  Searched(ModeProduct) =>
    /\ out.kind # "raised"
    /\ Heads(out.rows) =
         SelectSeq(df.products,
                   LAMBDA r : ContainsText(r.product_name, term)
                              \/ ContainsText(r.product_code, term))

\* the normalized product_codes of a raw productCodes value has an element
\* equal to the code c
NormalizedHas(raw, c) ==
  CASE raw.t = "list" -> \E k \in 1..Len(raw.v) : raw.v[k] = c
    [] raw.t = "str" ->
         LET codes == ExpectedCodes(raw.v)
         IN \E k \in 1..Len(codes) : codes[k] = c
    [] raw.t = "map" -> \E k \in 1..Len(raw.v) : raw.v[k] = c
    [] OTHER -> FALSE

\* the upstream branch records whose normalized product_codes hold c, in order
BranchesHolding(c) ==
  SelectSeq(cache.rawBranches, LAMBDA b : NormalizedHas(b.productCodes, c))

\* C2: for every matched Product with code c the Branches listed are exactly
\* the Branches, in snapshot order, whose normalized product_codes has an
\* element equal to c; a Branch whose raw productCodes is the string "A,B" is
\* listed for the Product with code "A" and not for one with code "A,B" or "".
C2_BranchesOfProduct ==
  (Searched(ModeProduct) /\ out.kind = "results") =>
    \A k \in 1..Len(out.rows) :
      LET c == out.rows[k].head.product_code
          listed == out.rows[k].table
          holding == BranchesHolding(c)
      IN /\ Len(listed) = Len(holding)
         /\ \A j \in 1..Len(listed) :
              /\ listed[j].branch_name = holding[j].name
              /\ listed[j].branch_manager = holding[j].manager
              /\ listed[j].address = holding[j].postalAddress
         /\ \A j \in 1..Len(listed) :
              holding[j].productCodes = Str(<<"A", ",", "B">>) => c = Str(<<"A">>) \/ c = Str(<<"B">>)
         /\ c = Str(<<"A">>) =>
              Len(listed) >= Len(SelectSeq(cache.rawBranches,
                    LAMBDA b : b.productCodes = Str(<<"A", ",", "B">>)))

C2_Witness ==
  /\ Searched(ModeProduct)
  /\ out.kind = "results"
  /\ Len(out.rows) = 2
  /\ Len(cache.rawBranches) = 2
  /\ cache.rawBranches[1].productCodes = Str(<<"A", ",", "B">>)
  /\ cache.rawBranches[2].productCodes = List(<<Str(<<"A", ",", "B">>), Str(<<>>)>>)
  /\ out.rows[1].head.product_code = Str(<<"A">>)
  /\ Len(out.rows[1].table) = 1
  /\ out.rows[1].table[1].branch_name = Str(<<"A", "b">>)
  /\ out.rows[2].head.product_code = Str(<<"A", ",", "B">>)
  /\ Len(out.rows[2].table) = 1
  /\ out.rows[2].table[1].branch_name = Null

\* C3: for every non-empty term the matched Branches are exactly the Branches,
\* in snapshot order, whose branch_name contains the term as a case-insensitive
\* substring (a null name matches no term), each paired with exactly the
\* Products, in snapshot order, whose product_code is a member of that Branch's
\* product_codes; a code absent from the Product set adds no row and no error.
C3_BranchSearch ==
  Searched(ModeBranch) =>
    /\ out.kind # "raised"
    /\ LET matched == SelectSeq(df.branches, LAMBDA b : ContainsText(b.branch_name, term))
       IN /\ Len(out.rows) = Len(matched)
          /\ \A k \in 1..Len(matched) :
               /\ out.rows[k].head.branch_name = matched[k].branch_name
               /\ out.rows[k].table =
                    SelectSeq(df.products,
                              LAMBDA r : \E j \in 1..Len(matched[k].product_codes.v) :
                                           matched[k].product_codes.v[j] = r.product_code)

\* C10: a search leaves the snapshot as it was - the frames the script holds
\* and the memoized entry, rows, order, columns and product_codes alike - and
\* what it returned is what the same query returns on the snapshot it leaves.
C10_QueriesReadOnly ==
  [][pc = "search" =>
       /\ df' = df
       /\ cache' = cache
       /\ term' # <<>> =>
            out'.rows = (IF mode' = ModeProduct
                         THEN ProductSearch(cache'.frames.products,
                                            cache'.frames.branches, term')
                         ELSE BranchSearch(cache'.frames.products,
                                           cache'.frames.branches, term')).rows]_vars

C10_Witness ==
  /\ Searched(ModeProduct)
  /\ out.kind = "results"
  /\ \E k \in 1..Len(out.rows) : \E j \in 1..Len(out.rows[k].table) :
       /\ out.rows[k].table[j].opening_hours =
            Str(<<"M", ":", " ", "0", "9", ":", "0", "0", "--", "1", "7", ":", "0", "0">>)
       /\ \E i \in 1..Len(df.branches) : df.branches[i].opening_hours = List(<<MonNineToFive>>)
       /\ \A i \in 1..Len(df.branches) : DOMAIN df.branches[i] =
            {"branch_name", "branch_manager", "address", "opening_hours", "product_codes"}

(***************************************************************************)
(* The claims about the fetch cycle and its cache (SpecCache).             *)
(***************************************************************************)
\* the script is past line 111
Fetched == pc \in {"guard", "search"} \/ (pc = "idle" /\ ix.ran)

\* this run's fetch+normalize cycle had a call that failed or could not be
\* tabulated
CycleFailed == \E i \in 1..Len(calls) : calls[i].resp.kind # "records"

\* C4: when either upstream call of a cycle fails, the cycle gives two empty
\* collections and an error message, never one populated and one empty; the
\* run is halted before any query; and after a failed products call the
\* branches call is not made.
C4_FetchFailure ==
  /\ cache.failed => cache.frames = EmptyFrames
  /\ (Fetched /\ CycleFailed) =>
       /\ cache.failed
       /\ df = EmptyFrames
       /\ out.fetchError
       /\ pc # "search"
       /\ pc = "idle" => (out.kind = "could not load data" /\ out.rows = <<>>)
  /\ \A i \in 1..Len(calls) :
       calls[i].api = "branches" =>
         (i = 2 /\ calls[1].api = "products" /\ calls[1].resp.kind # "error")

C4_Witness ==
  /\ pc = "idle"
  /\ Len(calls) = 2
  /\ calls[1].resp.kind = "records"
  /\ calls[1].resp.body # <<>>
  /\ calls[2].resp.kind = "error"
  /\ out.kind = "could not load data"
  /\ df = EmptyFrames

\* C9: the blocking error state is entered only when the cycle failed: when
\* both upstream calls succeeded and parsed, whatever they returned, the run
\* is not halted with "could not load data".
C9_OnlyFailureBlocks ==
  (pc = "idle" /\ out.kind = "could not load data") => out.fetchError

\* the entry the run found was still inside its one-hour window
FoundInWindow == ix.prior.present /\ ix.startedAt - ix.prior.at < TTL

\* C5: once a cycle has completed, whatever its outcome, every interaction
\* inside the one-hour window reuses its memoized result and makes no upstream
\* call; the first interaction after the window runs exactly one fresh cycle,
\* whose result takes the place of the memoized value.
C5_CacheLifecycle ==
  Fetched =>
    /\ FoundInWindow =>
         /\ calls = <<>>
         /\ ix.cycles = 0
         /\ cache = ix.prior
         /\ pc = "guard" => df = ix.prior.frames
         /\ out.fetchError = ix.prior.failed
    /\ ~FoundInWindow =>
         /\ ix.cycles = 1
         /\ Len(calls) \in {1, 2}
         /\ calls[1].api = "products"
         /\ cache.present
         /\ cache.at >= ix.startedAt
         /\ cache.failed = CycleFailed
         /\ ~cache.failed =>
              /\ Len(cache.frames.products) = Len(calls[1].resp.body)
              /\ \A i \in 1..Len(cache.frames.products) :
                   cache.frames.products[i].product_code = calls[1].resp.body[i].code
              /\ Len(cache.frames.branches) = Len(calls[2].resp.body)
              /\ \A i \in 1..Len(cache.frames.branches) :
                   cache.frames.branches[i].branch_name = calls[2].resp.body[i].name

\* a failed entry is reused one second before the hour is over
C5_Witness ==
  /\ pc = "idle"
  /\ ix.ran
  /\ ix.prior.present
  /\ ix.prior.failed
  /\ ix.startedAt - ix.prior.at = TTL - 1
  /\ calls = <<>>
  /\ out.kind = "could not load data"

\* a populated entry is replaced by a fresh cycle once the hour is over
C5_WitnessExpired ==
  /\ pc = "idle"
  /\ ix.prior.present
  /\ ix.prior.frames.products # <<>>
  /\ ix.startedAt - ix.prior.at = TTL
  /\ Len(calls) = 2
  /\ cache.frames # ix.prior.frames

====
